---------------------------- MODULE Spec2Model ----------------------------
(***************************************************************************)
(* Knowledge Graph Engine (ipproject.c): the entity hash index, the        *)
(* adjacency lists, fuzzy entity resolution, BFS path finding and the      *)
(* relation-file import/export, as a state machine.                        *)
(*                                                                         *)
(* A C string is a sequence of one-character strings.  An Entity* is the   *)
(* allocation index of the entity in ents (0 is NULL).  A local variable   *)
(* of a C function that is used more than once is a parameter of a helper  *)
(* operator, named after the function.                                     *)
(***************************************************************************)
EXTENDS Integers, Sequences, FiniteSets, TLC

(***************************************************************************)
(* Configuration constants (#define)                                       *)
(***************************************************************************)
HASH_SIZE == 101
NAME_LEN == 128
REL_LEN == 128
LINE_BUF == 512
SUGGEST_MAX == 16
QUEUE_INIT == 128
\* Entity *stack[1024] in find_path_bfs
STACK_CAP == 1024
\* char buf[32] in fuzzy_pick_from_suggestions
PICK_BUF == 32

(***************************************************************************)
(* Characters and C library helpers                                        *)
(***************************************************************************)
Min(S) == CHOOSE x \in S : \A y \in S : x <= y
Max(S) == CHOOSE x \in S : \A y \in S : x >= y
Least(x, y) == IF x < y THEN x ELSE y

\* The first and the last i in lo..hi with P(i); there is one.
First(lo, hi, P(_)) ==
  CHOOSE i \in lo..hi : P(i) /\ \A j \in lo..(i - 1) : ~P(j)
Last(lo, hi, P(_)) ==
  CHOOSE i \in lo..hi : P(i) /\ \A j \in (i + 1)..hi : ~P(j)

\* for (i = lo; i <= hi && Cont(acc); ++i) acc = Op(acc, i);
\* evaluated by halving the range, the left half first.
RECURSIVE IterateWhile(_, _, _, _, _)
IterateWhile(Op(_, _), Cont(_), lo, hi, acc) ==
  IF lo > hi THEN acc
  ELSE IF ~Cont(acc) THEN acc
  ELSE IF lo = hi THEN Op(acc, lo)
  ELSE CHOOSE r \in {IterateWhile(Op, Cont, ((lo + hi) \div 2) + 1, hi, a) :
                       a \in {IterateWhile(Op, Cont, lo, (lo + hi) \div 2, acc)}} : TRUE

\* for (i = lo; i <= hi; ++i) acc = Op(acc, i);
Iterate(Op(_, _), lo, hi, acc) ==
  IterateWhile(Op, LAMBDA a : TRUE, lo, hi, acc)

\* n copies of the character c
Rep(c, n) == [i \in 1..n |-> c]

\* the elements of a sequence
Elements(s) == {s[i] : i \in 1..Len(s)}

\* the byte value of a character (ASCII)
Ord(c) ==
  CASE c = "\t" -> 9 [] c = " " -> 32 [] c = "#" -> 35 [] c = "-" -> 45
    [] c = "0" -> 48 [] c = "1" -> 49 [] c = "2" -> 50 [] c = "3" -> 51
    [] c = "4" -> 52 [] c = "5" -> 53 [] c = "6" -> 54 [] c = "7" -> 55
    [] c = "8" -> 56 [] c = "9" -> 57
    [] c = "A" -> 65 [] c = "B" -> 66 [] c = "C" -> 67
    [] c = "a" -> 97 [] c = "b" -> 98 [] c = "c" -> 99
    [] c = "h" -> 104 [] c = "n" -> 110 [] c = "r" -> 114 [] c = "z" -> 122
    [] c = "|" -> 124

isspace(c) == c \in {" ", "\t"}

isdigit(c) == c \in {"0", "1", "2", "3", "4", "5", "6", "7", "8", "9"}

tolower(c) ==
  CASE c = "A" -> "a" [] c = "B" -> "b" [] c = "C" -> "c" [] OTHER -> c

\* strncpy(dst, src, n); dst[n] = '\0': the first n characters of src
strncpy(src, n) == SubSeq(src, 1, Least(Len(src), n))

\* strchr: the 0-based offset of the first c in s at or after offset from,
\* or -1 (NULL)
strchr(s, from, c) ==
  IF \E i \in from..(Len(s) - 1) : s[i + 1] = c
  THEN First(from, Len(s) - 1, LAMBDA i : s[i + 1] = c)
  ELSE -1

\* trim: start after  while (s[start] && isspace(s[start])) start++;
trim_start(s) == First(0, Len(s), LAMBDA i : i = Len(s) \/ ~isspace(s[i + 1]))

\* trim: end after  while (end > start && isspace(s[end])) end--;
\* for a string of at least one character
trim_end(s, start) ==
  Last(0, Len(s) - 1, LAMBDA e : e <= start \/ ~isspace(s[e + 1]))

\* trim: the memmove and the terminator
trim_move(s, start) == SubSeq(s, start + 1, trim_end(s, start) + 1)

\* Trim leading & trailing whitespace.
trim(s) == IF Len(s) = 0 THEN <<>> ELSE trim_move(s, trim_start(s))

\* Collapse every run of whitespace into a single space.
squeeze_spaces(s) ==
  Iterate(LAMBDA a, i :
            IF isspace(s[i])
            THEN [dst |-> IF a.in_space THEN a.dst ELSE Append(a.dst, " "),
                  in_space |-> TRUE]
            ELSE [dst |-> Append(a.dst, s[i]), in_space |-> FALSE],
          1, Len(s), [dst |-> <<>>, in_space |-> FALSE]).dst

\* Lowercase copy into a buffer of dstsz bytes.
to_lower_copy(src, dstsz) ==
  [i \in 1..Least(Len(src), dstsz - 1) |-> tolower(src[i])]

\* Case-insensitive compare: TRUE iff ci_cmp returns 0.
ci_cmp_eq(a, b) ==
  /\ Len(a) = Len(b)
  /\ \A i \in 1..Len(a) : tolower(a[i]) = tolower(b[i])

\* strstr(hay, needle) != NULL
strstr(hay, needle) ==
  \E k \in 0..(Len(hay) - Len(needle)) :
     \A i \in 1..Len(needle) : hay[k + i] = needle[i]

\* strncmp(a, b, n) == 0
strncmp_eq(a, b, n) ==
  /\ Least(Len(a), n) = Least(Len(b), n)
  /\ \A i \in 1..Least(Len(a), n) : a[i] = b[i]

\* Case-insensitive substring check.
ci_contains(hay, needle) ==
  strstr(to_lower_copy(hay, NAME_LEN * 2), to_lower_copy(needle, NAME_LEN))

(***************************************************************************)
(* Hash table operations.  unsigned long is 64 bits wide (LP64); the value *)
(* is kept as four 16-bit limbs, least significant first, so that the      *)
(* wrap-around of h * 33 + c is the machine's.                             *)
(***************************************************************************)
LIMB == 65536

\* h = ((h << 5) + h) + c, limb by limb: v1, v2, v3 are the limbs already
\* multiplied, with their carries still in them.
djb2_limb4(h, v1, v2, v3) ==
  <<v1 % LIMB, v2 % LIMB, v3 % LIMB, (h[4] * 33 + (v3 \div LIMB)) % LIMB>>

djb2_limb3(h, v1, v2) == djb2_limb4(h, v1, v2, h[3] * 33 + (v2 \div LIMB))

djb2_limb2(h, v1) == djb2_limb3(h, v1, h[2] * 33 + (v1 \div LIMB))

djb2_step(h, c) == djb2_limb2(h, h[1] * 33 + c)

\* h % m for a value held in limbs
mod_limbs(h, m) ==
  ((((((h[4] % m) * LIMB + h[3]) % m) * LIMB + h[2]) % m) * LIMB + h[1]) % m

hash_index(s) ==
  mod_limbs(Iterate(LAMBDA a, i : djb2_step(a, Ord(s[i])),
                    1, Len(s), <<5381, 0, 0, 0>>),
            HASH_SIZE)

(***************************************************************************)
(* The graph: G.ents is the heap of Entity records in allocation order,    *)
(* G.gHash the bucket heads.  An entity's relations field is its adjacency *)
(* list, head (most recently added) first.                                 *)
(***************************************************************************)
NULL == 0

EmptyGraph ==
  [ents |-> <<>>, gHash |-> [i \in 0..(HASH_SIZE - 1) |-> NULL]]

find_entity_exact(G, name) ==
  IterateWhile(LAMBDA a, i :
                 IF G.ents[a.e].name = name
                 THEN [a EXCEPT !.hit = TRUE]
                 ELSE [a EXCEPT !.e = G.ents[a.e].hnext],
               LAMBDA a : a.e # NULL /\ ~a.hit,
               1, Len(G.ents),
               [e |-> G.gHash[hash_index(name)], hit |-> FALSE]).e

\* create_entity from  unsigned idx = hash_index(e->name)  on; stored is
\* e->name.
create_entity_at(G, stored, idx) ==
  [ents |-> Append(G.ents,
                   [name |-> stored, relations |-> <<>>, hnext |-> G.gHash[idx],
                    visited |-> 0, prev |-> NULL]),
   gHash |-> [G.gHash EXCEPT ![idx] = Len(G.ents) + 1]]

\* create_entity after the strncpy
create_entity_named(G, stored) == create_entity_at(G, stored, hash_index(stored))

\* The graph after create_entity(name); the new entity is Len(G.ents) + 1.
create_entity(G, name) == create_entity_named(G, strncpy(name, NAME_LEN - 1))

\* get_or_create_entity after  Entity *e = find_entity_exact(name)
get_or_create_found(G, name, e) ==
  IF e # NULL THEN [G |-> G, e |-> e]
  ELSE [G |-> create_entity(G, name), e |-> Len(G.ents) + 1]

\* [G |-> the graph afterwards, e |-> the entity returned]
get_or_create_entity(G, name) ==
  get_or_create_found(G, name, find_entity_exact(G, name))

\* add_relationship that leaves the list alone when S already has an edge
\* with this label to T (duplicate suppression).
add_relationship_dedup(s1, t1, stored) ==
  IF \E k \in 1..Len(t1.G.ents[s1.e].relations) :
        t1.G.ents[s1.e].relations[k] = [rel |-> stored, target |-> t1.e]
  THEN [G |-> t1.G, S |-> s1.e, T |-> t1.e, rel |-> stored]
  ELSE [G |-> [t1.G EXCEPT !.ents[s1.e].relations =
                              <<[rel |-> stored, target |-> t1.e]>> \o @],
        S |-> s1.e, T |-> t1.e, rel |-> stored]

\* add_relationship from the malloc of R on: s1, t1 are what the two
\* get_or_create_entity calls returned, stored is R->rel.
add_relationship_link(s1, t1, stored) ==
  [G |-> [t1.G EXCEPT !.ents[s1.e].relations =
                         <<[rel |-> stored, target |-> t1.e]>> \o @],
   S |-> s1.e, T |-> t1.e, rel |-> stored]

\* add_relationship after  Entity *S = get_or_create_entity(src)
add_relationship_from(s1, rel, tgt) ==
  add_relationship_link(s1, get_or_create_entity(s1.G, tgt),
                        strncpy(rel, REL_LEN - 1))

\* [G |-> the graph afterwards, S, T |-> the endpoints, rel |-> R->rel]
add_relationship(G, src, rel, tgt) ==
  add_relationship_from(get_or_create_entity(G, src), rel, tgt)

\* The entities of bucket i in the order of
\*   for (e = gHash[i]; e; e = e->hnext)
Chain(G, i) ==
  IterateWhile(LAMBDA a, k : [e |-> G.ents[a.e].hnext, seq |-> Append(a.seq, a.e)],
               LAMBDA a : a.e # NULL,
               1, Len(G.ents), [e |-> G.gHash[i], seq |-> <<>>]).seq

\* The buckets that are not empty.
UsedBuckets(G) == {i \in 0..(HASH_SIZE - 1) : G.gHash[i] # NULL}

\* The k-th smallest element of S.
NthOf(S, k) == CHOOSE i \in S : Cardinality({j \in S : j < i}) = k - 1

ScanBuckets(G, used) ==
  Iterate(LAMBDA a, k : a \o Chain(G, NthOf(used, k)), 1, Cardinality(used), <<>>)

\* The entities in the order of
\*   for (i = 0; i < HASH_SIZE; ++i) for (e = gHash[i]; e; e = e->hnext)
ScanOrder(G) == ScanBuckets(G, UsedBuckets(G))

(***************************************************************************)
(* Fuzzy search                                                            *)
(***************************************************************************)
\* atoi: optional whitespace, optional sign, then digits; 0 when there are
\* none.  The value is capped at ATOI_CAP: every caller only compares it
\* with small numbers.
ATOI_CAP == 1000

atoi_space(s) ==
  First(1, Len(s) + 1, LAMBDA i : i = Len(s) + 1 \/ ~isspace(s[i]))

atoi_digits_end(s, first) ==
  First(first, Len(s) + 1, LAMBDA i : i = Len(s) + 1 \/ ~isdigit(s[i]))

atoi_digits(s, first) ==
  Iterate(LAMBDA a, i : Least(a * 10 + (Ord(s[i]) - 48), ATOI_CAP),
          first, atoi_digits_end(s, first) - 1, 0)

atoi_signed(s, start) ==
  IF start <= Len(s) /\ s[start] = "-"
  THEN 0 - atoi_digits(s, start + 1)
  ELSE atoi_digits(s, start)

atoi(s) == atoi_signed(s, atoi_space(s))

\* fuzzy_pick_from_suggestions after  int choice = atoi(buf)
fuzzy_pick_choice(list, count, choice) ==
  IF choice >= 1 /\ choice <= count
  THEN [e |-> list[choice], prompted |-> TRUE]
  ELSE [e |-> NULL, prompted |-> TRUE]

\* [e |-> the entity returned, prompted |-> whether a selection was read];
\* sel is the line read_line supplies if it is asked for.
fuzzy_pick_from_suggestions(list, count, sel) ==
  IF count <= 0 THEN [e |-> NULL, prompted |-> FALSE]
  ELSE IF count = 1 THEN [e |-> list[1], prompted |-> FALSE]
  ELSE fuzzy_pick_choice(list, count, atoi(strncpy(sel, PICK_BUF - 1)))

\* The loops of pass 2 and pass 3 without the test  sc < SUGGEST_MAX
suggest_unbounded(sugg) == TRUE

\* sc < SUGGEST_MAX, the condition of the loops of pass 2 and pass 3
suggest_more(sugg) == Len(sugg) < SUGGEST_MAX

\* Pass 2 / pass 3 over the entities in scan order: the first SUGGEST_MAX
\* that match.
Collect(order, Match(_)) ==
  IterateWhile(LAMBDA a, i : IF Match(order[i]) THEN Append(a, order[i]) ELSE a,
               LAMBDA a : suggest_more(a),
               1, Len(order), <<>>)

\* What search_entity_smart did: tier is "empty", "exact", "prefix",
\* "substring" or "none"; sugg the suggestion list handed to the picker.
search_result(pick, tier, key, sugg) ==
  [e |-> pick.e, prompted |-> pick.prompted, tier |-> tier, key |-> key,
   sugg |-> sugg]

\* return fuzzy_pick_from_suggestions(sugg, sc)
search_pick(key, sel, sugg, tier) ==
  search_result(fuzzy_pick_from_suggestions(sugg, Len(sugg), sel),
                IF Len(sugg) > 0 THEN tier ELSE "none", key, sugg)

\* Pass 3, entered with the suggestions pre of pass 2
search_pass3(G, key, sel, order, pre) ==
  IF Len(pre) > 0 THEN search_pick(key, sel, pre, "prefix")
  ELSE search_pick(key, sel,
                   Collect(order, LAMBDA e : ci_contains(G.ents[e].name, key)),
                   "substring")

\* Pass 2, entered with the positions exact of the names pass 1 accepts
search_pass2(G, key, sel, order, exact) ==
  IF exact # {}
  THEN search_result([e |-> order[Min(exact)], prompted |-> FALSE], "exact",
                     key, <<>>)
  ELSE search_pass3(G, key, sel, order,
         Collect(order, LAMBDA e :
           strncmp_eq(to_lower_copy(G.ents[e].name, NAME_LEN),
                      to_lower_copy(key, NAME_LEN),
                      Len(to_lower_copy(key, NAME_LEN)))))

\* Pass 1 over the entities in scan order
search_pass1(G, key, sel, order) ==
  search_pass2(G, key, sel, order,
               {i \in 1..Len(order) : ci_cmp_eq(G.ents[order[i]].name, key)})

\* search_entity_smart after  trim(key); squeeze_spaces(key);
search_key(G, key, sel) ==
  IF key = <<>>
  THEN search_result([e |-> NULL, prompted |-> FALSE], "empty", key, <<>>)
  ELSE search_pass1(G, key, sel, ScanOrder(G))

\* [e, prompted, tier, key, sugg]
search_entity_smart(G, user_input, sel) ==
  search_key(G, squeeze_spaces(trim(strncpy(user_input, NAME_LEN - 1))), sel)

(***************************************************************************)
(* File I/O                                                                *)
(***************************************************************************)
\* return 0
parse_failed == [ok |-> FALSE, src |-> <<>>, rel |-> <<>>, tgt |-> <<>>]

\* if (L >= size) L = size - 1;
parse_clip(L, size) == IF L >= size THEN size - 1 ELSE L

\* The output buffer filled from the L characters of line after offset from.
parse_segment(line, from, L, size) ==
  squeeze_spaces(trim(SubSeq(line, from + 1, from + parse_clip(L, size))))

\* parse_relation_line after both separators were found at p1 and p2
parse_lengths(line, p1, p2) ==
  IF p1 = 0 \/ p2 - (p1 + 1) = 0 \/ Len(line) - (p2 + 1) = 0 THEN parse_failed
  ELSE [ok |-> TRUE,
        src |-> parse_segment(line, 0, p1, NAME_LEN),
        rel |-> parse_segment(line, p1 + 1, p2 - (p1 + 1), REL_LEN),
        tgt |-> parse_segment(line, p2 + 1, Len(line) - (p2 + 1), NAME_LEN)]

\* parse_relation_line after  char *p2 = strchr(p1 + 1, '|')
parse_second(line, p1, p2) ==
  IF p2 < 0 THEN parse_failed ELSE parse_lengths(line, p1, p2)

\* parse_relation_line after  char *p1 = strchr(line, '|')
parse_first(line, p1) ==
  IF p1 < 0 THEN parse_failed
  ELSE parse_second(line, p1, strchr(line, p1 + 1, "|"))

\* [ok |-> the return value, src, rel, tgt |-> the output buffers]
parse_relation_line(line) == parse_first(line, strchr(line, 0, "|"))

\* What successive fgets(line, n, fp) calls return for one line of the file
\* (the newline stripped): pieces of n - 1 characters; a line of a multiple
\* of n - 1 characters leaves its newline to a further, empty piece.
fgets_pieces(line, n) ==
  [k \in 1..((Len(line) \div (n - 1)) + 1) |->
     SubSeq(line, (k - 1) * (n - 1) + 1, Least(k * (n - 1), Len(line)))]

fgets_all(file, n) ==
  Iterate(LAMBDA a, i : a \o fgets_pieces(file[i], n), 1, Len(file), <<>>)

\* The loop body of load_from_file after parse_relation_line returned p
load_parsed(a, p) ==
  IF ~p.ok THEN [a EXCEPT !.bad = @ + 1, !.log = Append(@, "skipped")]
  ELSE [G |-> add_relationship(a.G, p.src, p.rel, p.tgt).G,
        count |-> a.count + 1, bad |-> a.bad, log |-> Append(a.log, "added")]

\* The loop body of load_from_file after  trim(line)
load_trimmed(a, line) ==
  IF line = <<>> THEN [a EXCEPT !.log = Append(@, "blank")]
  ELSE IF line[1] = "#" THEN [a EXCEPT !.log = Append(@, "comment")]
  ELSE load_parsed(a, parse_relation_line(line))

\* One iteration of the while (fgets ...) loop of load_from_file; log keeps
\* what happened to each line read.
load_line(a, piece) == load_trimmed(a, trim(piece))

\* The while loop of load_from_file over what fgets returns
load_pieces(G, pieces) ==
  Iterate(LAMBDA a, i : load_line(a, pieces[i]), 1, Len(pieces),
          [G |-> G, count |-> 0, bad |-> 0, log |-> <<>>])

\* [G |-> the graph afterwards, count, bad |-> the counts reported, log]
load_from_file(G, file) == load_pieces(G, fgets_all(file, LINE_BUF))

\* The lines fprintf writes for the relations of e
save_relations(G, e) ==
  [k \in 1..Len(G.ents[e].relations) |->
     G.ents[e].name \o <<"|">> \o G.ents[e].relations[k].rel
       \o <<"|">> \o G.ents[G.ents[e].relations[k].target].name]

save_entities(G, order) ==
  Iterate(LAMBDA a, i : a \o save_relations(G, order[i]), 1, Len(order), <<>>)

\* The lines save_to_file writes.
save_to_file(G) == save_entities(G, ScanOrder(G))

\* The loop body of batch_input_lines after parse_relation_line returned p
batch_parsed(a, p) ==
  IF ~p.ok THEN a
  ELSE [G |-> add_relationship(a.G, p.src, p.rel, p.tgt).G, i |-> a.i + 1]

\* The loop body of batch_input_lines after  trim(line)
batch_trimmed(a, line) ==
  IF line = <<>> THEN [a EXCEPT !.i = @ + 1]
  ELSE IF line[1] = "#" THEN [a EXCEPT !.i = @ + 1]
  ELSE batch_parsed(a, parse_relation_line(line))

\* The loop of batch_input_lines(n) over the lines ins that read_line
\* supplies: i is the index of the line asked for next.
batch_input_lines(G, ins) ==
  Iterate(LAMBDA a, k : batch_trimmed(a, trim(ins[k])), 1, Len(ins),
          [G |-> G, i |-> 1])

(***************************************************************************)
(* BFS path finding                                                        *)
(***************************************************************************)
\* find_path_bfs without the call on line 265: the marks of the previous
\* query stay.
no_reset(G) == G

\* reset_bfs_marks clearing visited only: prev keeps its value.
reset_visited_only(G, inTable) ==
  [G EXCEPT !.ents = [e \in 1..Len(G.ents) |->
                        IF e \in inTable
                        THEN [G.ents[e] EXCEPT !.visited = 0]
                        ELSE G.ents[e]]]

\* visited = 0, prev = NULL for the entities the two loops reach
reset_marks(G, inTable) ==
  [G EXCEPT !.ents = [e \in 1..Len(G.ents) |->
                        IF e \in inTable
                        THEN [G.ents[e] EXCEPT !.visited = 0, !.prev = NULL]
                        ELSE G.ents[e]]]

reset_bfs_marks(G) == reset_marks(G, Elements(ScanOrder(G)))

\* The body of the for loop without the test  if (!n->visited)
scan_relation_unchecked(b, n, cur, cap) ==
  [ents |-> [b.ents EXCEPT ![n].visited = 1, ![n].prev = cur],
   Q |-> Append(b.Q, n),
   tail |-> b.tail + 1,
   oob |-> b.oob \/ b.tail >= cap]

\* The body of the for loop over cur->relations for the neighbour n: b is
\* [ents, Q, tail, oob]; oob records a write Q[tail++] at an index not
\* below cap.
scan_relation(b, n, cur, cap) ==
  IF b.ents[n].visited = 0
  THEN [ents |-> [b.ents EXCEPT ![n].visited = 1, ![n].prev = cur],
        Q |-> Append(b.Q, n),
        tail |-> b.tail + 1,
        oob |-> b.oob \/ b.tail >= cap]
  ELSE b

\* The for loop over cur->relations
scan_relations(a, cur, cap) ==
  Iterate(LAMBDA b, k : scan_relation(b, a.ents[cur].relations[k].target, cur, cap),
          1, Len(a.ents[cur].relations), a)

\* The locals of find_path_bfs (and the heap) when the while loop is first
\* reached: st is [ents, Q, cap, head, tail, found, oob].
bfs_start(G, src) ==
  [ents |-> [reset_bfs_marks(G).ents EXCEPT ![src].visited = 1],
   Q |-> <<src>>, cap |-> QUEUE_INIT, head |-> 0, tail |-> 1, found |-> 0,
   oob |-> FALSE]

\* if (tail >= cap) { cap *= 2; Q = realloc(...); }
bfs_cap(st) == IF st.tail >= st.cap THEN st.cap * 2 ELSE st.cap

\* The loop state after the for loop left sc
bfs_scanned(st, sc) ==
  [ents |-> sc.ents, Q |-> sc.Q, cap |-> bfs_cap(st), head |-> st.head + 1,
   tail |-> sc.tail, found |-> 0, oob |-> sc.oob]

\* One iteration of while (head < tail): the growth of the queue, the
\* dequeue, the test for the target and the scan of the outgoing edges.
bfs_iteration(st, tgt) ==
  IF st.Q[st.head + 1] = tgt
  THEN [st EXCEPT !.cap = bfs_cap(st), !.head = @ + 1, !.found = 1]
  ELSE bfs_scanned(st, scan_relations([ents |-> st.ents, Q |-> st.Q,
                                       tail |-> st.tail, oob |-> st.oob],
                                      st.Q[st.head + 1], bfs_cap(st)))

\* for (Entity *p = tgt; p; p = p->prev) stack[top++] = p;  cut after limit
\* steps
reconstruct_walk(G, tgt, limit) ==
  IterateWhile(LAMBDA a, k : [p |-> G.ents[a.p].prev, stack |-> Append(a.stack, a.p)],
               LAMBDA a : a.p # NULL,
               1, limit, [p |-> tgt, stack |-> <<>>])

\* for (int i = top - 1; i >= 0; --i) printf(stack[i]->name)
reconstruct_print(w) ==
  [top |-> Len(w.stack),
   path |-> [i \in 1..Len(w.stack) |-> w.stack[Len(w.stack) + 1 - i]],
   ended |-> w.p = NULL]

\* Reconstruct path (reverse via prev): [top |-> the number of entities
\* written to stack, path |-> source first].
reconstruct(G, tgt, limit) == reconstruct_print(reconstruct_walk(G, tgt, limit))

\* What find_path_bfs reports when its loop is left in state st
bfs_report(G, src, tgt, st) ==
  IF st.found = 1
  THEN [kind |-> "Path", src |-> src, tgt |-> tgt,
        path |-> reconstruct([ents |-> st.ents, gHash |-> G.gHash], tgt,
                             Len(G.ents) + 1).path]
  ELSE [kind |-> "NoPath", src |-> src, tgt |-> tgt]

\* find_path_bfs from reset_bfs_marks() to its return, for resolved
\* endpoints: what it reports.
bfs_run(G, src, tgt) ==
  bfs_report(G, src, tgt,
             IterateWhile(LAMBDA st, k : bfs_iteration(st, tgt),
                          LAMBDA st : st.head < st.tail /\ st.found = 0,
                          1, Len(G.ents) + 1, bfs_start(G, src)))

(***************************************************************************)
(* The program state.                                                      *)
(*   ents, gHash  the heap of entities and the global hash table           *)
(*   pc           "menu": main is at the top of its loop; "bfs": inside    *)
(*                the while loop of find_path_bfs; "found": after its      *)
(*                break; "exited": after choice 9; "crashed": the process  *)
(*                was killed; "eof": at the top of the loop of main with   *)
(*                the standard input at its end; "eof_invalid": at the     *)
(*                bottom of that loop after "Invalid choice"               *)
(*   bfs          the locals of find_path_bfs while it runs; oob and       *)
(*                marked are history: whether a write to Q fell outside    *)
(*                the block, and how many entities were still marked       *)
(*                visited when the function was entered                    *)
(*   out          what the last handler reported                           *)
(*   disk         the relation file last written by save_to_file           *)
(***************************************************************************)
VARIABLES ents, gHash, pc, bfs, out, disk

vars == <<ents, gHash, pc, bfs, out, disk>>

Cur == [ents |-> ents, gHash |-> gHash]

NoBfs == [src |-> NULL, tgt |-> NULL, Q |-> <<>>, cap |-> 0, head |-> 0,
          tail |-> 0, found |-> 0, oob |-> FALSE, marked |-> 0]

\* A file of the working directory: whether fopen finds it, and its lines.
NoFile == [exists |-> FALSE, lines |-> <<>>]
FileOf(lines) == [exists |-> TRUE, lines |-> lines]

Init ==
  /\ ents = <<>>
  /\ gHash = [i \in 0..(HASH_SIZE - 1) |-> NULL]
  /\ pc = "menu"
  /\ bfs = NoBfs
  /\ out = [kind |-> "Banner"]
  /\ disk = NoFile

SetGraph(G) ==
  /\ ents' = G.ents
  /\ gHash' = G.gHash

\* read_line(buf, n) returns a line of at most n - 1 characters: the lines
\* of S it can return.
read_line(S, n) == {l \in S : Len(l) <= n - 1}

\* choice == 1 after  trim(buf); squeeze_spaces(buf);
AddEntityNamed(name) ==
  /\ pc = "menu"
  /\ IF name = <<>>
     THEN /\ out' = [kind |-> "EmptyName"]
          /\ UNCHANGED <<ents, gHash>>
     ELSE IF find_entity_exact(Cur, name) # NULL
     THEN /\ out' = [kind |-> "Exists", name |-> name]
          /\ UNCHANGED <<ents, gHash>>
     ELSE /\ out' = [kind |-> "EntityAdded", name |-> name]
          /\ SetGraph(create_entity(Cur, name))
  /\ UNCHANGED <<pc, bfs, disk>>

\* choice == 1: Add Entity (manual); buf is the name line read.
AddEntity(buf) == AddEntityNamed(squeeze_spaces(trim(buf)))

\* choice == 2 for a complete input: res is what add_relationship did.
AddRelationshipDone(res) ==
  /\ out' = [kind |-> "Added", S |-> res.S, rel |-> res.rel, T |-> res.T]
  /\ SetGraph(res.G)

\* choice == 2 after the three lines were read and normalized
AddRelationshipFields(s, r, t) ==
  /\ pc = "menu"
  /\ IF s = <<>> \/ r = <<>> \/ t = <<>>
     THEN /\ out' = [kind |-> "InvalidInput"]
          /\ UNCHANGED <<ents, gHash>>
     ELSE AddRelationshipDone(add_relationship(Cur, s, r, t))
  /\ UNCHANGED <<pc, bfs, disk>>

\* choice == 2: Add Relationship (manual); sb, rb, tb are the lines read.
AddRelationshipManual(sb, rb, tb) ==
  AddRelationshipFields(squeeze_spaces(trim(sb)), squeeze_spaces(trim(rb)),
                        squeeze_spaces(trim(tb)))

\* The lines the picker took from the input: sel if it prompted, none
\* otherwise.
LinesRead(r, sel) == IF r.prompted THEN <<sel>> ELSE <<>>

\* display_connections after search_entity_smart returned r; read is what
\* the picker read from the input.
DisplayFound(buf, r, read) ==
  /\ pc = "menu"
  /\ out' = IF r.e = NULL
            THEN [kind |-> "EntityNotFound", input |-> buf, search |-> r,
                  read |-> read]
            ELSE [kind |-> "Connections", input |-> buf, search |-> r,
                  read |-> read, list |-> ents[r.e].relations]
  /\ UNCHANGED <<ents, gHash, pc, bfs, disk>>

\* display_connections after the lookup returned r
DisplayLookup(buf, sel, r) == DisplayFound(buf, r, LinesRead(r, sel))

\* choice == 3: Display Connections (fuzzy)
DisplayConnections(buf, sel) ==
  DisplayLookup(buf, sel, search_entity_smart(Cur, buf, sel))

\* The loop state held in the variables.
BfsState ==
  [ents |-> ents, Q |-> bfs.Q, cap |-> bfs.cap, head |-> bfs.head,
   tail |-> bfs.tail, found |-> bfs.found, oob |-> bfs.oob]

SetBfsState(st) ==
  /\ ents' = st.ents
  /\ bfs' = [src |-> bfs.src, tgt |-> bfs.tgt, Q |-> st.Q, cap |-> st.cap,
             head |-> st.head, tail |-> st.tail, found |-> st.found,
             oob |-> st.oob, marked |-> bfs.marked]

\* find_path_bfs from reset_bfs_marks() to the first test of the while
\* loop, which is reached in state st.
FindPathEnter(src, tgt, st, q) ==
  /\ ents' = st.ents
  /\ gHash' = gHash
  /\ bfs' = [src |-> src, tgt |-> tgt, Q |-> st.Q, cap |-> st.cap,
             head |-> st.head, tail |-> st.tail, found |-> st.found,
             oob |-> st.oob,
             marked |-> Cardinality({e \in 1..Len(ents) : ents[e].visited = 1})]
  /\ pc' = "bfs"
  /\ out' = [kind |-> "Searching", query |-> q]

\* find_path_bfs with reset_bfs_marks() moved in front of the two tests
\* for NULL.
FindPathResetFirst(src, tgt, q) ==
  /\ pc = "menu"
  /\ IF src = NULL
     THEN /\ out' = [kind |-> "SourceNotFound", query |-> q]
          /\ ents' = reset_bfs_marks(Cur).ents
          /\ UNCHANGED <<gHash, pc, bfs>>
     ELSE IF tgt = NULL
     THEN /\ out' = [kind |-> "TargetNotFound", query |-> q]
          /\ ents' = reset_bfs_marks(Cur).ents
          /\ UNCHANGED <<gHash, pc, bfs>>
     ELSE FindPathEnter(src, tgt, bfs_start(Cur, src), q)
  /\ UNCHANGED disk

\* find_path_bfs with the two tests for NULL in the other order.
FindPathTargetFirst(src, tgt, q) ==
  /\ pc = "menu"
  /\ IF tgt = NULL
     THEN /\ out' = [kind |-> "TargetNotFound", query |-> q]
          /\ UNCHANGED <<ents, gHash, pc, bfs>>
     ELSE IF src = NULL
     THEN /\ out' = [kind |-> "SourceNotFound", query |-> q]
          /\ UNCHANGED <<ents, gHash, pc, bfs>>
     ELSE FindPathEnter(src, tgt, bfs_start(Cur, src), q)
  /\ UNCHANGED disk

\* find_path_bfs after the two search_entity_smart calls returned src, tgt;
\* q is the query: the two lines passed in and what the pickers read.
FindPathResolved(src, tgt, q) ==
  /\ pc = "menu"
  /\ IF src = NULL
     THEN /\ out' = [kind |-> "SourceNotFound", query |-> q]
          /\ UNCHANGED <<ents, gHash, pc, bfs>>
     ELSE IF tgt = NULL
     THEN /\ out' = [kind |-> "TargetNotFound", query |-> q]
          /\ UNCHANGED <<ents, gHash, pc, bfs>>
     ELSE FindPathEnter(src, tgt, bfs_start(Cur, src), q)
  /\ UNCHANGED disk

\* find_path_bfs after the two lookups returned r1 and r2
FindPathLookups(sb, tb, sel1, sel2, r1, r2) ==
  FindPathResolved(r1.e, r2.e,
                   [s |-> sb, t |-> tb, read1 |-> LinesRead(r1, sel1),
                    read2 |-> LinesRead(r2, sel2)])

\* choice == 4: find_path_bfs up to the first test of the while loop.
FindPathBegin(sb, tb, sel1, sel2) ==
  FindPathLookups(sb, tb, sel1, sel2, search_entity_smart(Cur, sb, sel1),
                  search_entity_smart(Cur, tb, sel2))

\* One iteration of while (head < tail).
BfsVisit ==
  /\ pc = "bfs"
  /\ bfs.head < bfs.tail
  /\ SetBfsState(bfs_iteration(BfsState, bfs.tgt))
  /\ pc' = IF bfs'.found = 1 THEN "found" ELSE "bfs"
  /\ UNCHANGED <<gHash, out, disk>>

\* A write past the end of Q is undefined behaviour: besides going on as
\* if the block were large enough (BfsVisit), the process may be killed
\* (glibc: "realloc(): invalid next size").
BfsOverflowCrash ==
  /\ pc = "bfs"
  /\ bfs.head < bfs.tail
  /\ ~bfs.oob
  /\ bfs_iteration(BfsState, bfs.tgt).oob
  /\ pc' = "crashed"
  /\ out' = [kind |-> "Crashed"]
  /\ UNCHANGED <<ents, gHash, bfs, disk>>

\* The queue emptied: No path found.
BfsNoPath ==
  /\ pc = "bfs"
  /\ bfs.head >= bfs.tail
  /\ out' = [kind |-> "NoPath", src |-> bfs.src, tgt |-> bfs.tgt]
  /\ pc' = "menu"
  /\ bfs' = NoBfs
  /\ UNCHANGED <<ents, gHash, disk>>

BfsWalk == reconstruct(Cur, bfs.tgt, Len(ents) + 1)

\* found: reconstruct and print the path.
BfsPath ==
  /\ pc = "found"
  /\ BfsWalk.top <= STACK_CAP
  /\ out' = [kind |-> "Path", src |-> bfs.src, tgt |-> bfs.tgt,
             path |-> BfsWalk.path]
  /\ pc' = "menu"
  /\ bfs' = NoBfs
  /\ UNCHANGED <<ents, gHash, disk>>

\* found, and the walk along prev is longer than stack[]: the writes past
\* the end of the array are undefined behaviour.  The process may be
\* killed (stack protector, AddressSanitizer: stack-buffer-overflow) ...
BfsStackSmash ==
  /\ pc = "found"
  /\ BfsWalk.top > STACK_CAP
  /\ pc' = "crashed"
  /\ out' = [kind |-> "Crashed"]
  /\ UNCHANGED <<ents, gHash, bfs, disk>>

\* ... or go on as if the array were large enough.
BfsPathOverrun ==
  /\ pc = "found"
  /\ BfsWalk.top > STACK_CAP
  /\ out' = [kind |-> "Path", src |-> bfs.src, tgt |-> bfs.tgt,
             path |-> BfsWalk.path]
  /\ pc' = "menu"
  /\ bfs' = NoBfs
  /\ UNCHANGED <<ents, gHash, disk>>

\* load_from_file after the while loop left r
LoadDone(lines, r) ==
  /\ out' = [kind |-> "Loaded", file |-> lines, count |-> r.count,
             bad |-> r.bad, log |-> r.log]
  /\ SetGraph(r.G)

\* choice == 5: Load from File; file is the file named.
LoadFromFile(file) ==
  /\ pc = "menu"
  /\ IF ~file.exists
     THEN /\ out' = [kind |-> "CannotOpen"]
          /\ UNCHANGED <<ents, gHash>>
     ELSE LoadDone(file.lines, load_from_file(Cur, file.lines))
  /\ UNCHANGED <<pc, bfs, disk>>

\* batch_input_lines(n) returns r after reading exactly the lines ins.
BatchRead(n, ins, r) ==
  /\ ins # <<>>
  /\ r.i = n + 1
  /\ batch_input_lines(Cur, SubSeq(ins, 1, Len(ins) - 1)).i <= n
  /\ out' = [kind |-> "Batch", n |-> n]
  /\ SetGraph(r.G)

\* choice == 6 after  int n = atoi(buf)
BatchCount(n, ins) ==
  /\ pc = "menu"
  /\ IF n <= 0
     THEN /\ ins = <<>>
          /\ out' = [kind |-> "NothingToDo"]
          /\ UNCHANGED <<ents, gHash>>
     ELSE BatchRead(n, ins, batch_input_lines(Cur, ins))
  /\ UNCHANGED <<pc, bfs, disk>>

\* choice == 6: Batch Input; nbuf is the line holding the count, ins the
\* lines read by batch_input_lines until it returns.
BatchInput(nbuf, ins) == BatchCount(atoi(nbuf), ins)

\* choice == 7: Save to File
SaveToFile ==
  /\ pc = "menu"
  /\ disk' = FileOf(save_to_file(Cur))
  /\ out' = [kind |-> "Saved"]
  /\ UNCHANGED <<ents, gHash, pc, bfs>>

\* choice == 9: Exit (free_graph, return 0)
Exit ==
  /\ pc = "menu"
  /\ pc' = "exited"
  /\ SetGraph(EmptyGraph)
  /\ out' = [kind |-> "Goodbye"]
  /\ UNCHANGED <<bfs, disk>>

\* The standard input ends while main waits for a menu choice: from now on
\* fgets returns NULL.
EndOfInput ==
  /\ pc = "menu"
  /\ pc' = "eof"
  /\ UNCHANGED <<ents, gHash, bfs, out, disk>>

\* read_line(buf, n) at the end of the input: buf[0] = '\0'
read_line_eof == <<>>

\* The body of the loop of main for the choice read; at the end of the
\* input only the choices that read nothing further are told apart.
MenuChoiceAtEof(choice) ==
  /\ pc = "eof"
  /\ IF choice = 9
     THEN /\ pc' = "exited"
          /\ SetGraph(EmptyGraph)
          /\ out' = [kind |-> "Goodbye"]
     ELSE /\ choice \notin 1..8
          /\ pc' = "eof_invalid"
          /\ out' = [kind |-> "InvalidChoice", choice |-> choice]
          /\ UNCHANGED <<ents, gHash>>
  /\ UNCHANGED <<bfs, disk>>

\* One pass of for (;;) at the end of the input: read_line, atoi and the
\* chain of tests on choice.
MenuAtEof == MenuChoiceAtEof(atoi(read_line_eof))

\* for (;;): back to the top of the loop, menu() is printed again.
MenuAgain ==
  /\ pc = "eof_invalid"
  /\ pc' = "eof"
  /\ out' = [kind |-> "Menu"]
  /\ UNCHANGED <<ents, gHash, bfs, disk>>

\* The program is started again; the files it wrote are still there.
Restart ==
  /\ pc = "exited"
  /\ pc' = "menu"
  /\ out' = [kind |-> "Banner"]
  /\ UNCHANGED <<ents, gHash, bfs, disk>>

(***************************************************************************)
(* Spec: a session on a small graph: entities and relationships are added  *)
(* by hand and from a file, and paths are queried in between.              *)
(***************************************************************************)
MaxEnts == 3
MaxRels == 2

RelCount(E) ==
  Iterate(LAMBDA a, i : a + Len(E[i].relations), 1, Len(E), 0)

Bounded == Len(ents) <= MaxEnts /\ RelCount(ents) <= MaxRels

NameLines == {<<"a">>, <<"a", "b">>, <<"B">>}
RelLines == {<<"r">>}
QueryLines == {<<"a">>, <<"b">>, <<"A", "B">>}
PickLines == {<<"0">>}
Files == {<<<<"a", "|", "r", "|", "B">>, <<"#">>, <<"a", "|", "B">>>>}

Next ==
  \/ \E buf \in read_line(NameLines, LINE_BUF) : AddEntity(buf) /\ Bounded'
  \/ \E sb \in read_line(NameLines, NAME_LEN), rb \in read_line(RelLines, REL_LEN),
        tb \in read_line(NameLines, NAME_LEN) :
       AddRelationshipManual(sb, rb, tb) /\ Bounded'
  \/ \E sb \in read_line(QueryLines, NAME_LEN), tb \in read_line(QueryLines, NAME_LEN),
        sel1 \in read_line(PickLines, PICK_BUF), sel2 \in read_line(PickLines, PICK_BUF) :
       FindPathBegin(sb, tb, sel1, sel2)
  \/ BfsVisit
  \/ BfsNoPath
  \/ BfsPath
  \/ \E f \in Files : LoadFromFile(FileOf(f)) /\ Bounded'

Spec == Init /\ [][Next]_vars

\* A copy of the graph in which every entity has visited = 0, prev = none.
Fresh(G) ==
  [G EXCEPT !.ents = [e \in 1..Len(G.ents) |->
                        [G.ents[e] EXCEPT !.visited = 0, !.prev = NULL]]]

\* C3 (reset between queries): a query's BFS starts from the marks of a
\* fresh copy of the graph (only the source visited, no predecessor set),
\* and what it finds and reports is what the same query reports on a fresh
\* copy of the current graph, whatever earlier queries left behind.
ResetBetweenQueries ==
  /\ (pc = "bfs" /\ bfs.head = 0) =>
        \A e \in 1..Len(ents) :
           /\ ents[e].visited = (IF e = bfs.src THEN 1 ELSE 0)
           /\ ents[e].prev = NULL
  /\ pc = "found" =>
        bfs_run(Fresh(Cur), bfs.src, bfs.tgt)
          = [kind |-> "Path", src |-> bfs.src, tgt |-> bfs.tgt,
             path |-> BfsWalk.path]
  /\ (pc = "menu" /\ out.kind \in {"Path", "NoPath"}) =>
        out = bfs_run(Fresh(Cur), out.src, out.tgt)

\* A later query, entered with two or more entities still marked by an
\* earlier one, has found a target other than its source.
ResetBetweenQueriesWitness ==
  /\ pc = "found"
  /\ bfs.marked >= 2
  /\ bfs.tgt # bfs.src

(***************************************************************************)
(* What a path query should report, stated on the graph alone.             *)
(***************************************************************************)
\* The targets of the outgoing edges of the entities in S.
Succ(E, S) ==
  UNION {{E[u].relations[k].target : k \in 1..Len(E[u].relations)} : u \in S}

\* The entities within d hops of s, for the least d that reaches t (or
\* Len(E) if none does).
Layers(E, s, t) ==
  IterateWhile(LAMBDA a, k : [seen |-> a.seen \cup Succ(E, a.seen), d |-> a.d + 1],
               LAMBDA a : t \notin a.seen,
               1, Len(E), [seen |-> {s}, d |-> 0])

Reachable(E, s, t) == t \in Layers(E, s, t).seen

Distance(E, s, t) == Layers(E, s, t).d

IsPathFromTo(E, p, s, t) ==
  /\ Len(p) >= 1
  /\ p[1] = s
  /\ p[Len(p)] = t
  /\ \A i \in 1..(Len(p) - 1) : p[i + 1] \in Succ(E, {p[i]})

(***************************************************************************)
(* SpecBig: a session on an imported star graph: the hub h has an edge to  *)
(* each of K leaves, and z has an edge to h.                               *)
(***************************************************************************)
MaxLeaves == 128

DigitChars == <<"0", "1", "2", "3", "4", "5", "6", "7", "8", "9">>

RECURSIVE Dec(_)
Dec(i) ==
  IF i < 10 THEN <<DigitChars[i + 1]>>
  ELSE Dec(i \div 10) \o <<DigitChars[(i % 10) + 1]>>

LeafName(i) == <<"n">> \o Dec(i)

StarFile(K) ==
  [i \in 1..K |-> <<"h", "|", "r", "|">> \o LeafName(i)]
    \o <<<<"z", "|", "r", "|", "h">>>>

BigFiles == {StarFile(K) : K \in {MaxLeaves - 1, MaxLeaves}}
BigQueries == {<<"h">>, <<"z">>, LeafName(1)}

BigRefs == {<<"n">>, <<"1">>, <<"h">>}
BigSelections == {<<"0">>, <<"1", "6">>, <<"1", "7">>}

NextBig ==
  \/ \E f \in BigFiles : ents = <<>> /\ LoadFromFile(FileOf(f))
  \/ \E buf \in read_line(BigRefs, LINE_BUF), sel \in read_line(BigSelections, PICK_BUF) :
       DisplayConnections(buf, sel)
  \/ \E sb \in read_line(BigQueries, NAME_LEN), tb \in read_line(BigQueries, NAME_LEN),
        sel \in read_line(PickLines, PICK_BUF) :
       FindPathBegin(sb, tb, sel, sel)
  \/ BfsVisit
  \/ BfsOverflowCrash
  \/ BfsNoPath
  \/ BfsPath

SpecBig == Init /\ [][NextBig]_vars

\* C1 (BFS shortest path): whenever the target of a query is reachable
\* from its source, find_path_bfs reports a path from the source to the
\* target along outgoing edges with the least possible number of hops; in
\* particular the query is not cut short without a report.
ShortestPathReported ==
  /\ (pc = "menu" /\ out.kind \in {"Path", "NoPath"}
        /\ Reachable(ents, out.src, out.tgt)) =>
        /\ out.kind = "Path"
        /\ IsPathFromTo(ents, out.path, out.src, out.tgt)
        /\ Len(out.path) - 1 = Distance(ents, out.src, out.tgt)
  /\ pc = "crashed" => ~Reachable(ents, bfs.src, bfs.tgt)

\* C2 (no path iff unreachable): a query reports "no path found" exactly
\* when its target is unreachable from its source; a query with an
\* unreachable target always gets that far.
NoPathIffUnreachable ==
  /\ (pc = "menu" /\ out.kind \in {"Path", "NoPath"}) =>
        (out.kind = "NoPath" <=> ~Reachable(ents, out.src, out.tgt))
  /\ pc = "crashed" => Reachable(ents, bfs.src, bfs.tgt)

(***************************************************************************)
(* SpecApi: get_or_create_entity called directly, with names on both sides *)
(* of the NAME_LEN - 1 characters an entity stores.                        *)
(***************************************************************************)
\* A call get_or_create_entity(n) that returned r.
GetOrCreateDone(n, r) ==
  /\ out' = [kind |-> "GetOrCreate", name |-> n, e |-> r.e]
  /\ SetGraph(r.G)
  /\ UNCHANGED <<pc, bfs, disk>>

GetOrCreate(n) == GetOrCreateDone(n, get_or_create_entity(Cur, n))

ApiNames ==
  {<<"a">>, <<"B">>, <<"a", "b">>, Rep("a", NAME_LEN - 1), Rep("a", NAME_LEN),
   Rep("a", NAME_LEN - 1) \o <<"b">>}

NextApi == \E n \in ApiNames : GetOrCreate(n) /\ Len(ents') <= MaxEnts + 1

SpecApi == Init /\ [][NextApi]_vars

LongNameLines == {<<"a">>, Rep("a", NAME_LEN - 1), Rep("a", NAME_LEN)}
LongQueryLines ==
  {<<"b">>, <<" ">>, <<" ", "a">>, Rep(" ", NAME_LEN - 1) \o <<"a">>,
   Rep("a", NAME_LEN)}
PaddedLine == <<"a", "|", "r", "|">> \o Rep(" ", NAME_LEN - 1) \o <<"b">>
InputFiles == {<<PaddedLine>>, <<<<"a", "|", "r", "|", "A", "b">>>>}
CountLines == {<<"0">>, <<"1">>}
BatchScripts == {<<>>, <<PaddedLine>>, <<<<"a", "b">>, <<"a", "|", "r", "|", "a">>>>}

NextInput ==
  \/ \E buf \in read_line(LongNameLines, LINE_BUF) : AddEntity(buf) /\ Bounded'
  \/ \E sb \in read_line(LongNameLines, NAME_LEN), rb \in read_line(RelLines, REL_LEN),
        tb \in read_line(LongNameLines, NAME_LEN) :
       AddRelationshipManual(sb, rb, tb) /\ Bounded'
  \/ \E nbuf \in read_line(CountLines, LINE_BUF), ins \in BatchScripts :
       BatchInput(nbuf, ins) /\ Bounded'
  \/ \E f \in InputFiles : LoadFromFile(FileOf(f)) /\ Bounded'
  \/ \E buf \in read_line(LongQueryLines, LINE_BUF), sel \in read_line(PickLines, PICK_BUF) :
       DisplayConnections(buf, sel)

SpecInput == Init /\ [][NextInput]_vars

\* C5 (name uniqueness): no two entities in the hash index have the same
\* stored name.
UniqueNames ==
  \A e1, e2 \in 1..Len(ents) : e1 # e2 => ents[e1].name # ents[e2].name

\* C9 (non-empty names): every entity in the index has a non-empty stored
\* name.
NonEmptyNames == \A e \in 1..Len(ents) : ents[e].name # <<>>

\* The normalized form of a line: trimmed, inner whitespace collapsed.
Normalized(s) == squeeze_spaces(trim(s))

Lower(s) == [i \in 1..Len(s) |-> tolower(s[i])]

IsPrefixOf(k, n) == Len(k) <= Len(n) /\ SubSeq(n, 1, Len(k)) = k

IsSubstringOf(k, n) ==
  \E i \in 0..(Len(n) - Len(k)) : SubSeq(n, i + 1, i + Len(k)) = k

\* The entities whose name stands in relation R to the normalized input.
Matching(R(_, _), input) ==
  {e \in 1..Len(ents) : R(Lower(Normalized(input)), Lower(ents[e].name))}

\* The candidates of a tier are entities of M: all of them, or
\* SUGGEST_MAX of them.
CandidatesFrom(r, M) ==
  /\ Elements(r.sugg) \subseteq M
  /\ Cardinality(Elements(r.sugg)) = Least(Cardinality(M), SUGGEST_MAX)

\* What the tiers demand of the lookup r, given the entities matching the
\* normalized input exactly, by prefix and by substring.
TierContract(r, key, exact, prefix, substr) ==
  IF key = <<>> THEN r.e = NULL /\ ~r.prompted
  ELSE IF exact # {} THEN r.e \in exact /\ ~r.prompted
  ELSE IF prefix # {} THEN CandidatesFrom(r, prefix)
  ELSE CandidatesFrom(r, substr)

\* C10 (fuzzy tier precedence): after a lookup, (a) if some entity's name
\* equals the normalized input case-insensitively, such an entity was
\* returned without a prompt; (b) otherwise, if some names start with the
\* input, the candidates were exactly such entities; (c) substring matches
\* were the candidates only when no name matched by prefix; and an input
\* that is empty after normalization returned no entity without a prompt.
TierPrecedence ==
  out.kind \in {"EntityNotFound", "Connections"} =>
    TierContract(out.search, Normalized(out.input),
                 Matching(LAMBDA k, n : k = n, out.input),
                 Matching(IsPrefixOf, out.input),
                 Matching(IsSubstringOf, out.input))

(***************************************************************************)
(* SpecIO: relation files are imported, the graph is saved, and the        *)
(* program is left and started again.                                      *)
(***************************************************************************)
IoNameLines == {<<"a">>, <<"#", "a">>}
IoLines ==
  {<<"a", "|", "r", "|", "B">>, <<"a", "|", " ", "|", "B">>,
   <<"a", "|", "r", "|", "B", "|", "c">>, <<"a", "|", "B">>, <<"#">>}
\* A line that does not fit the line buffer of load_from_file.
LongLine == Rep("a", LINE_BUF)
IoFiles ==
  {<<l>> : l \in IoLines \cup {LongLine}}
    \cup {<<<<"a", "|", "B">>, <<" ">>, <<"B", "|", "r", "|", "a">>>>}

NextIO ==
  \/ \E sb \in read_line(IoNameLines, NAME_LEN), rb \in read_line(RelLines, REL_LEN),
        tb \in read_line(IoNameLines, NAME_LEN) :
       AddRelationshipManual(sb, rb, tb) /\ Bounded'
  \/ \E f \in IoFiles : LoadFromFile(FileOf(f)) /\ Bounded'
  \/ LoadFromFile(disk) /\ Bounded'
  \/ SaveToFile
  \/ Exit
  \/ Restart

SpecIO == Init /\ [][NextIO]_vars

\* The (source name, label, target name) triples of a graph.
Triples(G) ==
  UNION {{<<G.ents[e].name, G.ents[e].relations[k].rel,
            G.ents[G.ents[e].relations[k].target].name>> :
            k \in 1..Len(G.ents[e].relations)} : e \in 1..Len(G.ents)}

\* A non-empty normalized string without the delimiter.
Storable(s) ==
  s # <<>> /\ Normalized(s) = s /\ \A i \in 1..Len(s) : s[i] # "|"

\* C6 (round trip): if every name and label of the graph is a non-empty
\* normalized string without '|', then loading what save_to_file writes
\* into an empty index gives a graph with the same set of triples.
SaveLoadRoundTrip ==
  (\A t \in Triples(Cur) : Storable(t[1]) /\ Storable(t[2]) /\ Storable(t[3]))
    => Triples(load_from_file(EmptyGraph, save_to_file(Cur)).G) = Triples(Cur)

\* The line is neither blank nor a comment.
RelationLine(l) == trim(l) # <<>> /\ trim(l)[1] # "#"

Delimiters(l) == {i \in 1..Len(l) : l[i] = "|"}

\* Exactly two delimiters, and three segments that are non-empty after
\* trimming and whitespace collapsing.
WellFormed(l) ==
  /\ Cardinality(Delimiters(l)) = 2
  /\ Normalized(SubSeq(l, 1, Min(Delimiters(l)) - 1)) # <<>>
  /\ Normalized(SubSeq(l, Min(Delimiters(l)) + 1, Max(Delimiters(l)) - 1)) # <<>>
  /\ Normalized(SubSeq(l, Max(Delimiters(l)) + 1, Len(l))) # <<>>

\* Every line of the file fits the line buffer, so that fgets returns it
\* whole.
LinesFit(file) == \A i \in 1..Len(file) : Len(file[i]) < LINE_BUF - 1

\* C7 (import line acceptance): in the load just reported (of lines that
\* fit the line buffer), a relation line was added only if it is
\* well-formed, and every relation line that is not well-formed was
\* skipped.
ImportLineAcceptance ==
  (out.kind = "Loaded" /\ LinesFit(out.file)) =>
    \A i \in 1..Len(out.file) :
       RelationLine(out.file[i]) =>
         /\ out.log[i] = "added" => WellFormed(trim(out.file[i]))
         /\ ~WellFormed(trim(out.file[i])) => out.log[i] = "skipped"

\* C8 (malformed-line resilience): the load just reported went through
\* every line, added every well-formed relation line, and its counts are
\* the number of well-formed and of malformed relation lines.
ImportCounts ==
  out.kind = "Loaded" =>
    /\ Len(out.log) = Len(out.file)
    /\ \A i \in 1..Len(out.file) :
         (RelationLine(out.file[i]) /\ WellFormed(trim(out.file[i])))
           => out.log[i] = "added"
    /\ out.count = Cardinality({i \in 1..Len(out.file) :
                       RelationLine(out.file[i]) /\ WellFormed(trim(out.file[i]))})
    /\ out.bad = Cardinality({i \in 1..Len(out.file) :
                     RelationLine(out.file[i]) /\ ~WellFormed(trim(out.file[i]))})

(***************************************************************************)
(* SpecPick: a few entities with similar names are added, and the lookup   *)
(* of display_connections is answered with every kind of selection line.   *)
(***************************************************************************)
PickNames == {<<"a", "b">>, <<"a", "c">>, <<"a", "B">>}
PickQueries == {<<"a">>, <<"c">>, <<"a", "b">>, <<"z">>}
Selections ==
  {<<"0">>, <<"1">>, <<"2">>, <<"3">>, <<"4">>, <<"-", "1">>, <<"x">>,
   <<"2", "x">>, <<>>}

NextPick ==
  \/ \E buf \in read_line(PickNames, LINE_BUF) : AddEntity(buf) /\ Bounded'
  \/ \E buf \in read_line(PickQueries, LINE_BUF), sel \in read_line(Selections, PICK_BUF) :
       DisplayConnections(buf, sel)

SpecPick == Init /\ [][NextPick]_vars

\* The line is a decimal number without a sign.
IsNumber(s) == Len(s) >= 1 /\ \A i \in 1..Len(s) : isdigit(s[i])

\* The value of a decimal number.
NumberValue(s) ==
  Iterate(LAMBDA a, i : Least(a * 10 + (Ord(s[i]) - 48), ATOI_CAP), 1, Len(s), 0)

\* The candidate a selection line stands for among n listed ones: its
\* number k if the line is a number with 1 <= k <= n, and 0 (none) for
\* every other line.
Selected(s, n) ==
  IF IsNumber(s) /\ NumberValue(s) >= 1 /\ NumberValue(s) <= n
  THEN NumberValue(s) ELSE 0

\* What the picker owes for the candidate list sugg, having read the lines
\* read and returned e.
PickContract(sugg, read, e) ==
  IF Len(sugg) = 0 THEN e = NULL /\ read = <<>>
  ELSE IF Len(sugg) = 1 THEN e = sugg[1] /\ read = <<>>
  ELSE /\ Len(read) = 1
       /\ e = (IF Selected(read[1], Len(sugg)) = 0 THEN NULL
               ELSE sugg[Selected(read[1], Len(sugg))])

\* C11 (disambiguation contract): when a lookup has handed n candidates to
\* the picker, it returned no entity for n = 0; the single candidate for
\* n = 1 without reading a selection; and for n > 1 it read exactly one
\* selection line and returned the k-th candidate if the line is a number
\* k with 1 <= k <= n, and no entity for every other line.
DisambiguationContract ==
  (out.kind \in {"EntityNotFound", "Connections"}
     /\ out.search.tier \in {"prefix", "substring", "none"})
    => PickContract(out.search.sugg, out.read, out.search.e)

(***************************************************************************)
(* SpecQuery: a graph with a diamond, a parallel edge and a cycle is       *)
(* imported; relationships are entered by hand with and without empty      *)
(* fields; entities are displayed and paths are queried, with references   *)
(* that resolve, that do not, and that need a selection.                   *)
(***************************************************************************)
MaxQueryRels == 8

QueryFile ==
  <<<<"a", "b", "|", "r", "|", "a", "c">>, <<"a", "b", "|", "r", "|", "a", "c">>,
    <<"a", "b", "|", "r", "|", "B">>, <<"a", "c", "|", "r", "|", "c">>,
    <<"B", "|", "r", "|", "c">>, <<"c", "|", "r", "|", "a", "b">>,
    <<"h", "|", "r", "|", "a", "b">>>>

FieldLines == {<<>>, <<" ">>, <<"a", "b">>}
LabelLines == {<<>>, <<"r">>}
RefLines == {<<"a", "b">>, <<"a">>, <<"c">>, <<"b">>, <<"h">>, <<"z">>}
RefSelections == {<<"0">>, <<"2">>}

NextQuery ==
  \/ ents = <<>> /\ LoadFromFile(FileOf(QueryFile))
  \/ \E sb \in read_line(FieldLines, NAME_LEN), rb \in read_line(LabelLines, REL_LEN),
        tb \in read_line(FieldLines, NAME_LEN) :
       AddRelationshipManual(sb, rb, tb) /\ RelCount(ents') <= MaxQueryRels
  \/ \E buf \in read_line(RefLines, LINE_BUF), sel \in read_line(RefSelections, PICK_BUF) :
       DisplayConnections(buf, sel)
  \/ \E sb \in read_line(RefLines, NAME_LEN), tb \in read_line(RefLines, NAME_LEN),
        sel1 \in read_line(RefSelections, PICK_BUF),
        sel2 \in read_line(RefSelections, PICK_BUF) :
       FindPathBegin(sb, tb, sel1, sel2)
  \/ BfsVisit
  \/ BfsNoPath
  \/ BfsPath

SpecQuery == Init /\ [][NextQuery]_vars

\* The outcomes of a lookup that failed or only displayed, and of an
\* add-relationship with an empty field.
ReadOnlyOutcomes ==
  {"EntityNotFound", "Connections", "SourceNotFound", "TargetNotFound",
   "InvalidInput"}

\* C12 (read-only resolution and cancellation): a step that ends in a
\* display, in "entity not found", in "source not found" or "target not
\* found" (a cancelled selection included), or in the rejection of an
\* add-relationship with an empty field, leaves the entities, their names,
\* their edge lists, their visited and prev fields and the hash index as
\* they were.
ReadOnlyResolution ==
  [][out'.kind \in ReadOnlyOutcomes => (ents' = ents /\ gHash' = gHash)]_vars

\* A path query whose selection was cancelled has failed to resolve, with
\* the marks of an earlier query still on the entities.
ReadOnlyResolutionWitness ==
  /\ out.kind \in {"SourceNotFound", "TargetNotFound"}
  /\ out.query.read1 \o out.query.read2 # <<>>
  /\ \E e \in 1..Len(ents) : ents[e].visited = 1 /\ ents[e].prev # NULL

\* The entity a reference resolves to in the current graph, the picker
\* reading the lines read.
Resolve(ref, read) ==
  search_entity_smart(Cur, ref, IF read = <<>> THEN <<>> ELSE read[1]).e

\* What each outcome of a path query says about its two references.
TypedOutcome ==
  /\ out.kind = "SourceNotFound" =>
        /\ Resolve(out.query.s, out.query.read1) = NULL
        /\ pc = "menu" /\ bfs = NoBfs
  /\ out.kind = "TargetNotFound" =>
        /\ Resolve(out.query.s, out.query.read1) # NULL
        /\ Resolve(out.query.t, out.query.read2) = NULL
        /\ pc = "menu" /\ bfs = NoBfs
  /\ out.kind = "Searching" =>
        /\ Resolve(out.query.s, out.query.read1) = bfs.src
        /\ Resolve(out.query.t, out.query.read2) = bfs.tgt
        /\ bfs.src # NULL /\ bfs.tgt # NULL
  /\ pc \in {"bfs", "found"} => out.kind = "Searching"

\* C13 (typed resolution failures): "source not found" is the outcome of a
\* path query exactly when its source reference does not resolve, "target
\* not found" exactly when the source resolves and the target does not; in
\* both cases no search is run; and "no path found" or a path is reported
\* only at the end of a search, which is run only for two resolved
\* endpoints.
TypedResolutionFailures ==
  /\ []TypedOutcome
  /\ [][out'.kind \in {"NoPath", "Path"} => out.kind = "Searching"]_vars

\* "Source not found" was reported for a query whose target reference
\* resolves.
TypedResolutionFailuresWitness ==
  /\ out.kind = "SourceNotFound"
  /\ Resolve(out.query.t, out.query.read2) # NULL

\* C17 (enqueue at most once): during a search the queue holds no entity
\* twice, it holds exactly the entities marked visited, and the number of
\* enqueues so far (tail) is at most the number of entities.
EnqueueAtMostOnce ==
  pc \in {"bfs", "found"} =>
    /\ bfs.tail = Len(bfs.Q)
    /\ \A i, j \in 1..Len(bfs.Q) : i # j => bfs.Q[i] # bfs.Q[j]
    /\ bfs.tail <= Len(ents)
    /\ Elements(bfs.Q) = {e \in 1..Len(ents) : ents[e].visited = 1}

\* The edges into e from the entities of U.
InEdges(E, e, U) ==
  {uk \in U \X (1..MaxQueryRels) :
     uk[2] <= Len(E[uk[1]].relations) /\ E[uk[1]].relations[uk[2]].target = e}

\* Two entities were enqueued although the entities already scanned have
\* two or more edges into each: one by parallel edges from one entity, one
\* by edges from two entities.
EnqueueAtMostOnceWitness ==
  /\ pc = "bfs"
  /\ \E e \in Elements(bfs.Q) : \E u \in {bfs.Q[i] : i \in 1..bfs.head} :
        Cardinality(InEdges(ents, e, {u})) >= 2
  /\ \E e \in Elements(bfs.Q) : \E u, v \in {bfs.Q[i] : i \in 1..bfs.head} :
        u # v /\ InEdges(ents, e, {u}) # {} /\ InEdges(ents, e, {v}) # {}

\* The walk w along prev links ended (at none), at the entity src, without
\* passing an entity twice.
WalkEndsAt(w, src) ==
  /\ w.p = NULL
  /\ Len(w.stack) >= 1
  /\ w.stack[Len(w.stack)] = src
  /\ \A i, j \in 1..Len(w.stack) : i # j => w.stack[i] # w.stack[j]

\* C20 (predecessor chain well-formedness): during a search the source
\* has prev = none, every other visited entity has as prev a visited
\* entity with an outgoing edge to it, and the prev links from every
\* visited entity lead to the source without passing an entity twice.
PredecessorChains ==
  pc \in {"bfs", "found"} =>
    /\ ents[bfs.src].visited = 1
    /\ ents[bfs.src].prev = NULL
    /\ \A e \in 1..Len(ents) :
         (ents[e].visited = 1 /\ e # bfs.src) =>
           /\ ents[e].prev # NULL
           /\ ents[ents[e].prev].visited = 1
           /\ e \in Succ(ents, {ents[e].prev})
    /\ \A e \in 1..Len(ents) :
         ents[e].visited = 1 =>
           WalkEndsAt(reconstruct_walk(Cur, e, Len(ents) + 1), bfs.src)

\* A query entered with the marks of an earlier one has found a target two
\* or more hops from its source.
PredecessorChainsWitness ==
  /\ pc = "found"
  /\ bfs.marked >= 2
  /\ Len(BfsWalk.path) >= 3

(***************************************************************************)
(* The calls of add_relationship, and the edges of the graph               *)
(***************************************************************************)
\* Names and labels as add_relationship is called with: at most
\* NAME_LEN - 1 and REL_LEN - 1 characters.
CallNames == {<<"a">>, Rep("a", NAME_LEN - 1)}
CallLabels == {<<"r">>}

\* The adjacency list of e in the graph G, empty if G has no such entity.
EdgesOf(G, e) == IF e <= Len(G.ents) THEN G.ents[e].relations ELSE <<>>

\* add_relationship(s, r, t), called on G, returned res: the entity S is
\* named s, T is named t, the list of S is the old one with the edge
\* (r, T) put in front, and every other list is as before.
EdgeAdded(G, res, s, r, t) ==
  /\ res.G.ents[res.S].name = s
  /\ res.G.ents[res.T].name = t
  /\ res.G.ents[res.S].relations
       = <<[rel |-> r, target |-> res.T]>> \o EdgesOf(G, res.S)
  /\ \A e \in 1..Len(res.G.ents) :
       e # res.S => res.G.ents[e].relations = EdgesOf(G, e)

\* The same call made again on the graph the first call left: the same
\* two entities, and one more edge.
EdgeAddedAgain(res, again, s, r, t) ==
  /\ again.S = res.S /\ again.T = res.T
  /\ EdgeAdded(res.G, again, s, r, t)
  /\ Len(again.G.ents) = Len(res.G.ents)

EdgeAddedTwice(G, res, s, r, t) ==
  /\ EdgeAdded(G, res, s, r, t)
  /\ EdgeAddedAgain(res, add_relationship(res.G, s, r, t), s, r, t)

(***************************************************************************)
(* SpecEdges: entities and relationships are entered by hand, with names   *)
(* up to and beyond the NAME_LEN - 1 characters stored, and displayed.     *)
(***************************************************************************)
EdgeQueries == {<<"a">>}

NextEdges ==
  \/ \E buf \in read_line(LongNameLines, LINE_BUF) : AddEntity(buf) /\ Bounded'
  \/ \E sb \in read_line(LongNameLines, NAME_LEN), rb \in read_line(RelLines, REL_LEN),
        tb \in read_line(LongNameLines, NAME_LEN) :
       AddRelationshipManual(sb, rb, tb) /\ Bounded'
  \/ \E buf \in read_line(EdgeQueries, LINE_BUF), sel \in read_line(PickLines, PICK_BUF) :
       DisplayConnections(buf, sel)

SpecEdges == Init /\ [][NextEdges]_vars

\* C14 (edge accumulation): on every reachable graph, every call
\* add_relationship(s, r, t) puts exactly one edge with label r and target
\* the entity named t in front of the list of the entity named s and
\* leaves every other list as it is; a second identical call adds a second
\* such edge; and the edge an add-relationship reported, and the list a
\* display printed, are the ones in the graph.
EdgeAccumulation ==
  /\ \A s \in CallNames, r \in CallLabels, t \in CallNames :
       EdgeAddedTwice(Cur, add_relationship(Cur, s, r, t), s, r, t)
  /\ out.kind = "Added" =>
       ents[out.S].relations[1] = [rel |-> out.rel, target |-> out.T]
  /\ out.kind = "Connections" => out.list = ents[out.search.e].relations

\* An add-relationship has just given an entity a second edge with the
\* same label to the same target.
EdgeAccumulationWitness ==
  /\ out.kind = "Added"
  /\ Len(ents[out.S].relations) >= 2
  /\ ents[out.S].relations[1] = ents[out.S].relations[2]

\* C15 (referential integrity): the target of every edge is an entity
\* that is in the hash index and that find_entity_exact returns for its
\* own stored name.
ReferentialIntegrity ==
  \A e \in 1..Len(ents) : \A k \in 1..Len(ents[e].relations) :
     /\ ents[e].relations[k].target \in Elements(ScanOrder(Cur))
     /\ find_entity_exact(Cur, ents[ents[e].relations[k].target].name)
          = ents[e].relations[k].target

(***************************************************************************)
(* The suggestion list and the queue, on the imported star graph           *)
(***************************************************************************)
\* The entities, in scan order, whose lowercased name stands in relation R
\* to the lowercased key.
MatchesInOrder(R(_, _), key) ==
  SelectSeq(ScanOrder(Cur), LAMBDA e : R(Lower(key), Lower(ents[e].name)))

\* The first SUGGEST_MAX elements of a sequence
Capped(m) == SubSeq(m, 1, Least(Len(m), SUGGEST_MAX))

\* C16 (suggestion cap): the candidate list of a lookup never holds more
\* than SUGGEST_MAX entities and none twice; in the prefix tier and in the
\* substring tier it is the first SUGGEST_MAX matching entities in scan
\* order, so that collection stopped when the cap was reached.
SuggestionCap ==
  out.kind \in {"EntityNotFound", "Connections"} =>
    /\ Len(out.search.sugg) <= SUGGEST_MAX
    /\ \A i, j \in 1..Len(out.search.sugg) :
         i # j => out.search.sugg[i] # out.search.sugg[j]
    /\ out.search.tier = "prefix" =>
         out.search.sugg = Capped(MatchesInOrder(IsPrefixOf, out.search.key))
    /\ out.search.tier = "substring" =>
         out.search.sugg = Capped(MatchesInOrder(IsSubstringOf, out.search.key))

\* A lookup listed SUGGEST_MAX candidates although more entities match,
\* and the last one listed was selected.
SuggestionCapWitness ==
  /\ out.kind = "Connections"
  /\ out.search.tier = "prefix"
  /\ Len(out.search.sugg) = SUGGEST_MAX
  /\ Len(MatchesInOrder(IsPrefixOf, out.search.key)) > SUGGEST_MAX
  /\ out.search.e = out.search.sugg[SUGGEST_MAX]

\* C18 (queue bounds safety): during a search every write Q[tail++] has
\* been at an index below the capacity the queue had at that moment, and
\* the entities enqueued fit the queue.
QueueBoundsSafety ==
  /\ pc \in {"bfs", "found"} => (~bfs.oob /\ bfs.tail <= bfs.cap)
  /\ pc # "crashed"

(***************************************************************************)
(* SpecChain: a chain n1 -> n2 -> ... of as many entities as stack[] of    *)
(* find_path_bfs holds, or one more, is imported, and one path is queried. *)
(***************************************************************************)
MaxChain == 1025

\* The chain of K entities: K - 1 lines.
ChainFile(K) ==
  [i \in 1..(K - 1) |-> LeafName(i) \o <<"|", "r", "|">> \o LeafName(i + 1)]

ChainFiles == {ChainFile(K) : K \in {MaxChain - 1, MaxChain}}
ChainRefs == {LeafName(1), LeafName(MaxChain - 1), LeafName(MaxChain)}

NextChain ==
  \/ \E f \in ChainFiles : ents = <<>> /\ LoadFromFile(FileOf(f))
  \/ \E sb \in read_line(ChainRefs, NAME_LEN), tb \in read_line(ChainRefs, NAME_LEN),
        sel \in read_line(PickLines, PICK_BUF) :
       /\ {e \in 1..Len(ents) : ents[e].visited = 1} = {}
       /\ FindPathBegin(sb, tb, sel, sel)
  \/ BfsVisit
  \/ BfsNoPath
  \/ BfsPath
  \/ BfsStackSmash
  \/ BfsPathOverrun

SpecChain == Init /\ [][NextChain]_vars

\* The path find_path_bfs has to write to stack[] for the query from s to
\* t fits the array.
PathFits(report) == report.kind = "Path" => Len(report.path) <= STACK_CAP

\* C19 (path reconstruction bounds): for the graph just imported, every
\* path that find_path_bfs finds between its first and its last entity
\* fits stack[]; and when a search has found its target, the number of
\* entities the walk along prev writes to stack[] is at most the capacity
\* of the array, and the process is not killed.
ReconstructionBounds ==
  /\ (pc = "menu" /\ out.kind = "Loaded") =>
       \A s, t \in {1, Len(ents)} : PathFits(bfs_run(Cur, s, t))
  /\ pc = "found" => BfsWalk.top <= STACK_CAP
  /\ pc # "crashed"

(***************************************************************************)
(* SpecSession: a session of manual entries that ends with choice 9 or     *)
(* with the end of the standard input.  The program takes its own steps:   *)
(* once the input has ended, a pass of the main loop that can be taken is  *)
(* taken.                                                                  *)
(***************************************************************************)
NextSession ==
  \/ \E buf \in read_line(NameLines, LINE_BUF) : AddEntity(buf) /\ Bounded'
  \/ \E sb \in read_line(NameLines, NAME_LEN), rb \in read_line(RelLines, REL_LEN),
        tb \in read_line(NameLines, NAME_LEN) :
       AddRelationshipManual(sb, rb, tb) /\ Bounded'
  \/ Exit
  \/ EndOfInput
  \/ MenuAtEof
  \/ MenuAgain

SpecSession ==
  Init /\ [][NextSession]_vars /\ WF_vars(MenuAtEof) /\ WF_vars(MenuAgain)

\* C21 (session termination): once the standard input has ended before
\* choice 9 was entered, the main loop eventually exits.
SessionTerminates == (pc = "eof") ~> (pc = "exited")

=============================================================================
